---- MODULE Spec2Model ----
(***************************************************************************)
(* Model of src/earthquakes/tools.py: compute_payouts,                     *)
(* compute_burning_cost and get_haversine_distance.                        *)
(*                                                                         *)
(* Magnitudes are in tenths (60 is 6.0), distances in km, payouts in       *)
(* currency units.  A time column value is a sequence of one-character     *)
(* strings.  A magnitude or distance cell is a record [num, val]: num is   *)
(* FALSE for a cell float() raises ValueError on.                          *)
(***************************************************************************)
EXTENDS Integers, Sequences, FiniteSets, TLC

VARIABLES
    pc,               \* position of the running call
    earthquake_data,  \* compute_payouts: the catalogue rows
    payouts_str,      \* compute_payouts: the schedule rows
    idx,              \* compute_payouts: rows consumed by the outer loop
    payout_years,     \* compute_payouts: the dict built by the outer loop
    payouts,          \* compute_burning_cost: the dict argument
    start_year,       \* compute_burning_cost: argument
    end_year,         \* compute_burning_cost: argument
    todo,             \* compute_burning_cost: keys the loop has not visited
    burn,             \* compute_burning_cost: the list of selected payouts
    burning_cost,     \* compute_burning_cost: the returned value
    lats,             \* get_haversine_distance: argument, degrees
    lons,             \* get_haversine_distance: argument, degrees
    lat0,             \* get_haversine_distance: argument, degrees
    lon0,             \* get_haversine_distance: argument, degrees
    a,                \* get_haversine_distance: the array a of line 38
    root,             \* get_haversine_distance: np.sqrt(a) of line 39
    c,                \* get_haversine_distance: the array c of line 39
    distance          \* get_haversine_distance: the returned array

vars == <<pc, earthquake_data, payouts_str, idx, payout_years,
          payouts, start_year, end_year, todo, burn, burning_cost,
          lats, lons, lat0, lon0, a, root, c, distance>>

payVars == <<earthquake_data, payouts_str, idx, payout_years>>
bcVars == <<payouts, start_year, end_year, todo, burn, burning_cost>>
havVars == <<lats, lons, lat0, lon0, a, root, c, distance>>

-----------------------------------------------------------------------------
(* Bounds of the model *)

MaxEvents == 2
MaxBands == 2
MaxKeys == 2

-----------------------------------------------------------------------------
(* Helpers *)

Max(x, y) == IF x >= y THEN x ELSE y
Min(x, y) == IF x <= y THEN x ELSE y

SeqsUpTo(S, n) == UNION {[1..k -> S] : k \in 0..n}

RECURSIVE SetMax(_)
SetMax(S) ==
    IF S = {} THEN 0
    ELSE LET x == CHOOSE v \in S : TRUE
         IN Max(x, SetMax(S \ {x}))

RECURSIVE SeqSum(_)
SeqSum(s) == IF s = <<>> THEN 0 ELSE Head(s) + SeqSum(Tail(s))

EmptyDict == [y \in {} |-> 0]

Num(v) == [num |-> TRUE, val |-> v]
NotANumber == [num |-> FALSE, val |-> 0]

-----------------------------------------------------------------------------
(* Python built-ins used by compute_payouts *)

Digits == <<"0", "1", "2", "3", "4", "5", "6", "7", "8", "9">>

IsDigit(ch) == \E d \in 1..10 : Digits[d] = ch

DigitVal(ch) == (CHOOSE d \in 1..10 : Digits[d] = ch) - 1

RECURSIVE DecimalValue(_)
DecimalValue(s) ==
    IF s = <<>> THEN 0
    ELSE 10 * DecimalValue(SubSeq(s, 1, Len(s) - 1)) + DigitVal(s[Len(s)])

\* t[0:4]: the first four characters, or all of them when there are fewer
Slice04(t) == SubSeq(t, 1, Min(4, Len(t)))

\* int(s) for a string of the model's alphabet: ValueError unless s is a
\* non-empty run of digits
IntOf(s) ==
    IF s # <<>> /\ \A k \in 1..Len(s) : IsDigit(s[k])
    THEN [ok |-> TRUE, val |-> DecimalValue(s)]
    ELSE [ok |-> FALSE, val |-> 0]

YearOf(t) == IntOf(Slice04(t))

-----------------------------------------------------------------------------
(* compute_payouts *)

\* line 68 with a strict distance test
QualifiesMutLt(dist, mg, band) == dist < band.Radius /\ mg >= band.Magnitude

\* line 68 with the magnitude test reversed
QualifiesMutMag(dist, mg, band) == dist <= band.Radius /\ mg <= band.Magnitude

\* the test of line 68 on parsed values
Qualifies(dist, mg, band) == dist <= band.Radius /\ mg >= band.Magnitude

\* one pass of the inner loop body (lines 68-70) on band, from the payout
\* so far; float(dist) is evaluated first and float(mg) only when the
\* distance test passes (the 'and' short-circuits)
BandStep(ev, band, payout) ==
    IF ~ev.distance.num THEN [err |-> TRUE, payout |-> payout]
    ELSE IF ~(ev.distance.val <= band.Radius) THEN [err |-> FALSE, payout |-> payout]
    ELSE IF ~ev.mag.num THEN [err |-> TRUE, payout |-> payout]
    ELSE IF Qualifies(ev.distance.val, ev.mag.val, band) /\ payout < band.Payout
         THEN [err |-> FALSE, payout |-> band.Payout]
         ELSE [err |-> FALSE, payout |-> payout]

\* the inner loop (lines 66-70) from band j on
RECURSIVE ScanBands(_, _, _, _)
ScanBands(ev, sched, j, payout) ==
    IF j > Len(sched) THEN [err |-> FALSE, payout |-> payout]
    ELSE LET r == BandStep(ev, sched[j], payout)
         IN IF r.err THEN r ELSE ScanBands(ev, sched, j + 1, r.payout)

EventPayout(ev, sched) == ScanBands(ev, sched, 1, 0)

\* lines 72-77 adding the payout to the year's entry
RecordYearSum(d, year, payout) ==
    IF year \in DOMAIN d
    THEN [d EXCEPT ![year] = d[year] + payout]
    ELSE [y \in DOMAIN d \cup {year} |-> IF y = year THEN payout ELSE d[y]]

\* lines 72-77 leaving out a new year whose payout is 0
RecordYearSkipZero(d, year, payout) ==
    IF year \in DOMAIN d
    THEN IF d[year] < payout THEN [d EXCEPT ![year] = payout] ELSE d
    ELSE IF payout = 0 THEN d
         ELSE [y \in DOMAIN d \cup {year} |-> IF y = year THEN payout ELSE d[y]]

\* lines 72-77 without the comparison of line 73
RecordYearOverwrite(d, year, payout) ==
    [y \in DOMAIN d \cup {year} |-> IF y = year THEN payout ELSE d[y]]

\* lines 72-77
RecordYear(d, year, payout) ==
    IF year \in DOMAIN d
    THEN IF d[year] < payout THEN [d EXCEPT ![year] = payout] ELSE d
    ELSE [y \in DOMAIN d \cup {year} |-> IF y = year THEN payout ELSE d[y]]

\* one iteration of the outer loop (lines 63-77)
ProcessEvent ==
    /\ pc = "compute_payouts"
    /\ idx < Len(earthquake_data)
    /\ LET ev == earthquake_data[idx + 1]
           year == YearOf(ev.time)
           p == EventPayout(ev, payouts_str)
       IN IF ~year.ok \/ p.err
          THEN /\ pc' = "raised"
               /\ UNCHANGED <<idx, payout_years>>
          ELSE /\ pc' = pc
               /\ idx' = idx + 1
               /\ payout_years' = RecordYear(payout_years, year.val, p.payout)
    /\ UNCHANGED <<earthquake_data, payouts_str>>
    /\ UNCHANGED bcVars
    /\ UNCHANGED havVars

\* line 80
ReturnPayouts ==
    /\ pc = "compute_payouts"
    /\ idx = Len(earthquake_data)
    /\ pc' = "returned"
    /\ UNCHANGED payVars
    /\ UNCHANGED bcVars
    /\ UNCHANGED havVars

-----------------------------------------------------------------------------
(* Inputs of compute_payouts *)

Time2000 == <<"2", "0", "0", "0", "0", "3", "1", "2">>
Time2001 == <<"2", "0", "0", "1", "0", "6", "1", "5">>

Times == {Time2000, Time2001}
Mags == {45, 60, 70}
Dists == {50, 100}

Events == [time : Times, mag : {Num(m) : m \in Mags}, distance : {Num(d) : d \in Dists}]

Band(r, m, p) == [Radius |-> r, Magnitude |-> m, Payout |-> p]

Bands == {Band(100, 50, 500), Band(50, 65, 1000), Band(100, 60, 100), Band(50, 60, 300)}

IdleHav ==
    /\ lats = <<>>
    /\ lons = <<>>
    /\ lat0 = 0
    /\ lon0 = 0
    /\ a = <<>>
    /\ root = <<>>
    /\ c = <<>>
    /\ distance = <<>>

IdleBC ==
    /\ payouts = EmptyDict
    /\ start_year = 0
    /\ end_year = 0
    /\ todo = {}
    /\ burn = <<>>
    /\ burning_cost = [kind |-> "None", num |-> 0, den |-> 1]

Init ==
    /\ pc = "compute_payouts"
    /\ earthquake_data \in SeqsUpTo(Events, MaxEvents)
    /\ payouts_str \in SeqsUpTo(Bands, MaxBands)
    /\ idx = 0
    /\ payout_years = EmptyDict
    /\ IdleBC
    /\ IdleHav

Next == ProcessEvent \/ ReturnPayouts

Spec == Init /\ [][Next]_vars

-----------------------------------------------------------------------------
(* compute_burning_cost *)

None == [kind |-> "None", num |-> 0, den |-> 1]

\* the float total / n, kept as the pair (total, n); numpy's division of a
\* scalar by 0 gives inf or nan with a warning
Quotient(total, n) ==
    IF n = 0 THEN [kind |-> "nonfinite", num |-> total, den |-> 0]
    ELSE [kind |-> "number", num |-> total, den |-> n]

\* line 105 without the upper limit
InRangeNoUpper(year, s, e) == year >= s

\* the test of line 105
InRange(year, s, e) == year >= s /\ year <= e

\* line 112 dividing by the number of selected years
BurningCostOfCount(b, s, e) ==
    IF Len(b) < 1 THEN None ELSE Quotient(SeqSum(b), Len(b))

\* lines 108-113 giving 0 for an empty selection
BurningCostOfZero(b, s, e) ==
    IF Len(b) < 1 THEN Quotient(0, e - s + 1) ELSE Quotient(SeqSum(b), e - s + 1)

\* lines 108-113, on the list the loop has built
BurningCostOf(b, s, e) ==
    IF Len(b) < 1 THEN None ELSE Quotient(SeqSum(b), e - s + 1)

\* one iteration of the loop of lines 104-106; the keys come in the dict's
\* insertion order, which is any order
SelectYear ==
    /\ pc = "compute_burning_cost"
    /\ \E year \in todo :
          /\ todo' = todo \ {year}
          /\ burn' = IF InRange(year, start_year, end_year)
                     THEN Append(burn, payouts[year])
                     ELSE burn
    /\ UNCHANGED <<pc, payouts, start_year, end_year, burning_cost>>
    /\ UNCHANGED payVars
    /\ UNCHANGED havVars

\* lines 108-113
ReturnBurningCost ==
    /\ pc = "compute_burning_cost"
    /\ todo = {}
    /\ burning_cost' = BurningCostOf(burn, start_year, end_year)
    /\ pc' = "returned"
    /\ UNCHANGED <<payouts, start_year, end_year, todo, burn>>
    /\ UNCHANGED payVars
    /\ UNCHANGED havVars

KeyYears == {1999, 2000, 2001, 2005}
PayoutValues == {0, 100, 300}
ArgYears == 1999..2004

DictsUpTo(K, V, n) == UNION {[S -> V] : S \in {T \in SUBSET K : Cardinality(T) <= n}}

IdlePayouts ==
    /\ earthquake_data = <<>>
    /\ payouts_str = <<>>
    /\ idx = 0
    /\ payout_years = EmptyDict

InitBC ==
    /\ pc = "compute_burning_cost"
    /\ payouts \in DictsUpTo(KeyYears, PayoutValues, MaxKeys)
    /\ start_year \in ArgYears
    /\ end_year \in ArgYears
    /\ todo = DOMAIN payouts
    /\ burn = <<>>
    /\ burning_cost = None
    /\ IdlePayouts
    /\ IdleHav

NextBC == SelectYear \/ ReturnBurningCost

SpecBC == InitBC /\ [][NextBC]_vars

-----------------------------------------------------------------------------
(* get_haversine_distance *)
(*                                                                         *)
(* Floating-point values are kept as integers in thousandths (ONE is 1.0), *)
(* every arithmetic operation rounding its exact result to the nearest     *)
(* thousandth as binary64 rounds to the nearest double.  An angle is kept  *)
(* as the whole number of degrees x that stands for the float x * pi/180   *)
(* of lines 30-33; SinDeg and CosDeg give np.sin and np.cos of that float. *)
(* A float is a record [nan, val]; NaN is what np.sqrt and np.arcsin       *)
(* return, with a warning, outside their domains.                          *)

ONE == 1000

Fl(v) == [nan |-> FALSE, val |-> v]
NaN == [nan |-> TRUE, val |-> 0]

\* x * y rounded to the nearest thousandth
Mul(x, y) ==
    LET p == x * y
    IN IF p >= 0 THEN (2 * p + ONE) \div (2 * ONE)
       ELSE -((2 * (-p) + ONE) \div (2 * ONE))

\* np.sin at 0, 1, ..., 90 degrees, in thousandths
SinTable ==
  <<
    0, 17, 35, 52, 70, 87, 105, 122, 139, 156, 174, 191, 208, 225, 242,
    259, 276, 292, 309, 326, 342, 358, 375, 391, 407, 423, 438, 454, 469,
    485, 500, 515, 530, 545, 559, 574, 588, 602, 616, 629, 643, 656, 669,
    682, 695, 707, 719, 731, 743, 755, 766, 777, 788, 799, 809, 819, 829,
    839, 848, 857, 866, 875, 883, 891, 899, 906, 914, 921, 927, 934, 940,
    946, 951, 956, 961, 966, 970, 974, 978, 982, 985, 988, 990, 993, 995,
    996, 998, 999, 999, 1000, 1000
  >>

\* np.sin of an angle of -360..360 degrees
SinDeg(d) ==
    LET m == IF d < 0 THEN -d ELSE d
        v == IF m <= 90 THEN SinTable[m + 1]
             ELSE IF m <= 180 THEN SinTable[180 - m + 1]
             ELSE IF m <= 270 THEN -SinTable[m - 180 + 1]
             ELSE -SinTable[360 - m + 1]
    IN IF d < 0 THEN -v ELSE v

\* np.cos of an angle of -270..270 degrees
CosDeg(d) == SinDeg(90 - (IF d < 0 THEN -d ELSE d))

\* np.arcsin at 0.000, 0.001, ..., 1.000, in thousandths of a radian
ArcsinTable ==
  <<
    0, 1, 2, 3, 4, 5, 6, 7, 8, 9, 10, 11, 12, 13, 14, 15, 16, 17, 18, 19,
    20, 21, 22, 23, 24, 25, 26, 27, 28, 29, 30, 31, 32, 33, 34, 35, 36,
    37, 38, 39, 40, 41, 42, 43, 44, 45, 46, 47, 48, 49, 50, 51, 52, 53,
    54, 55, 56, 57, 58, 59, 60, 61, 62, 63, 64, 65, 66, 67, 68, 69, 70,
    71, 72, 73, 74, 75, 76, 77, 78, 79, 80, 81, 82, 83, 84, 85, 86, 87,
    88, 89, 90, 91, 92, 93, 94, 95, 96, 97, 98, 99, 100, 101, 102, 103,
    104, 105, 106, 107, 108, 109, 110, 111, 112, 113, 114, 115, 116, 117,
    118, 119, 120, 121, 122, 123, 124, 125, 126, 127, 128, 129, 130, 131,
    132, 133, 134, 135, 136, 137, 138, 139, 140, 141, 142, 143, 145, 146,
    147, 148, 149, 150, 151, 152, 153, 154, 155, 156, 157, 158, 159, 160,
    161, 162, 163, 164, 165, 166, 167, 168, 169, 170, 171, 172, 173, 174,
    175, 176, 177, 178, 179, 180, 181, 182, 183, 184, 185, 186, 187, 188,
    189, 190, 191, 192, 193, 194, 195, 196, 197, 198, 199, 200, 201, 202,
    203, 204, 205, 206, 207, 209, 210, 211, 212, 213, 214, 215, 216, 217,
    218, 219, 220, 221, 222, 223, 224, 225, 226, 227, 228, 229, 230, 231,
    232, 233, 234, 235, 236, 237, 238, 239, 240, 241, 242, 243, 244, 245,
    246, 248, 249, 250, 251, 252, 253, 254, 255, 256, 257, 258, 259, 260,
    261, 262, 263, 264, 265, 266, 267, 268, 269, 270, 271, 272, 273, 274,
    275, 277, 278, 279, 280, 281, 282, 283, 284, 285, 286, 287, 288, 289,
    290, 291, 292, 293, 294, 295, 296, 297, 298, 299, 301, 302, 303, 304,
    305, 306, 307, 308, 309, 310, 311, 312, 313, 314, 315, 316, 317, 318,
    319, 320, 322, 323, 324, 325, 326, 327, 328, 329, 330, 331, 332, 333,
    334, 335, 336, 337, 338, 339, 341, 342, 343, 344, 345, 346, 347, 348,
    349, 350, 351, 352, 353, 354, 355, 357, 358, 359, 360, 361, 362, 363,
    364, 365, 366, 367, 368, 369, 370, 371, 373, 374, 375, 376, 377, 378,
    379, 380, 381, 382, 383, 384, 385, 387, 388, 389, 390, 391, 392, 393,
    394, 395, 396, 397, 398, 400, 401, 402, 403, 404, 405, 406, 407, 408,
    409, 410, 412, 413, 414, 415, 416, 417, 418, 419, 420, 421, 422, 424,
    425, 426, 427, 428, 429, 430, 431, 432, 433, 435, 436, 437, 438, 439,
    440, 441, 442, 443, 444, 446, 447, 448, 449, 450, 451, 452, 453, 454,
    456, 457, 458, 459, 460, 461, 462, 463, 465, 466, 467, 468, 469, 470,
    471, 472, 473, 475, 476, 477, 478, 479, 480, 481, 483, 484, 485, 486,
    487, 488, 489, 490, 492, 493, 494, 495, 496, 497, 498, 500, 501, 502,
    503, 504, 505, 506, 508, 509, 510, 511, 512, 513, 514, 516, 517, 518,
    519, 520, 521, 522, 524, 525, 526, 527, 528, 529, 531, 532, 533, 534,
    535, 536, 538, 539, 540, 541, 542, 543, 545, 546, 547, 548, 549, 550,
    552, 553, 554, 555, 556, 557, 559, 560, 561, 562, 563, 565, 566, 567,
    568, 569, 570, 572, 573, 574, 575, 576, 578, 579, 580, 581, 582, 584,
    585, 586, 587, 588, 590, 591, 592, 593, 594, 596, 597, 598, 599, 600,
    602, 603, 604, 605, 607, 608, 609, 610, 611, 613, 614, 615, 616, 618,
    619, 620, 621, 622, 624, 625, 626, 627, 629, 630, 631, 632, 634, 635,
    636, 637, 639, 640, 641, 642, 644, 645, 646, 647, 649, 650, 651, 652,
    654, 655, 656, 657, 659, 660, 661, 662, 664, 665, 666, 667, 669, 670,
    671, 673, 674, 675, 676, 678, 679, 680, 682, 683, 684, 685, 687, 688,
    689, 691, 692, 693, 694, 696, 697, 698, 700, 701, 702, 704, 705, 706,
    708, 709, 710, 712, 713, 714, 716, 717, 718, 719, 721, 722, 723, 725,
    726, 727, 729, 730, 732, 733, 734, 736, 737, 738, 740, 741, 742, 744,
    745, 746, 748, 749, 750, 752, 753, 755, 756, 757, 759, 760, 761, 763,
    764, 766, 767, 768, 770, 771, 773, 774, 775, 777, 778, 780, 781, 782,
    784, 785, 787, 788, 789, 791, 792, 794, 795, 797, 798, 799, 801, 802,
    804, 805, 807, 808, 810, 811, 812, 814, 815, 817, 818, 820, 821, 823,
    824, 826, 827, 829, 830, 832, 833, 835, 836, 838, 839, 841, 842, 844,
    845, 847, 848, 850, 851, 853, 854, 856, 857, 859, 860, 862, 863, 865,
    866, 868, 869, 871, 873, 874, 876, 877, 879, 880, 882, 884, 885, 887,
    888, 890, 891, 893, 895, 896, 898, 899, 901, 903, 904, 906, 908, 909,
    911, 912, 914, 916, 917, 919, 921, 922, 924, 926, 927, 929, 931, 932,
    934, 936, 937, 939, 941, 942, 944, 946, 948, 949, 951, 953, 954, 956,
    958, 960, 961, 963, 965, 967, 968, 970, 972, 974, 976, 977, 979, 981,
    983, 985, 986, 988, 990, 992, 994, 995, 997, 999, 1001, 1003, 1005,
    1007, 1008, 1010, 1012, 1014, 1016, 1018, 1020, 1022, 1024, 1026,
    1027, 1029, 1031, 1033, 1035, 1037, 1039, 1041, 1043, 1045, 1047,
    1049, 1051, 1053, 1055, 1057, 1059, 1061, 1063, 1065, 1068, 1070,
    1072, 1074, 1076, 1078, 1080, 1082, 1084, 1086, 1089, 1091, 1093,
    1095, 1097, 1100, 1102, 1104, 1106, 1108, 1111, 1113, 1115, 1117,
    1120, 1122, 1124, 1127, 1129, 1131, 1134, 1136, 1138, 1141, 1143,
    1146, 1148, 1151, 1153, 1156, 1158, 1160, 1163, 1166, 1168, 1171,
    1173, 1176, 1178, 1181, 1184, 1186, 1189, 1192, 1194, 1197, 1200,
    1203, 1205, 1208, 1211, 1214, 1217, 1220, 1223, 1226, 1229, 1232,
    1235, 1238, 1241, 1244, 1247, 1250, 1253, 1256, 1260, 1263, 1266,
    1270, 1273, 1276, 1280, 1283, 1287, 1291, 1294, 1298, 1302, 1305,
    1309, 1313, 1317, 1321, 1325, 1329, 1334, 1338, 1342, 1347, 1351,
    1356, 1361, 1365, 1370, 1376, 1381, 1386, 1392, 1397, 1403, 1409,
    1416, 1422, 1429, 1437, 1444, 1452, 1461, 1471, 1481, 1493, 1508,
    1526, 1571
  >>

\* np.sqrt: the nearest thousandth to the root, NaN below 0
Sqrt(x) ==
    IF x.nan \/ x.val < 0 THEN NaN
    ELSE Fl(CHOOSE r \in 0..(2 * ONE) :
              /\ 4 * x.val * ONE < (2 * r + 1) * (2 * r + 1)
              /\ (r = 0 \/ (2 * r - 1) * (2 * r - 1) <= 4 * x.val * ONE))

\* np.arcsin: NaN outside [-1, 1]
Arcsin(x) ==
    IF x.nan \/ x.val > ONE \/ x.val < -ONE THEN NaN
    ELSE IF x.val >= 0 THEN Fl(ArcsinTable[x.val + 1])
    ELSE Fl(-ArcsinTable[-x.val + 1])

EARTH_RADIUS == 6378

\* lines 36-38 for one point
HavA(lat, lon, rlat, rlon) ==
    LET dlon == lon - rlon
        dlat == lat - rlat
    IN Fl(Mul(SinDeg(dlat \div 2), SinDeg(dlat \div 2))
            + Mul(Mul(CosDeg(rlat), CosDeg(lat)),
                  Mul(SinDeg(dlon \div 2), SinDeg(dlon \div 2))))

\* lines 30-38: the array a
ComputeA ==
    /\ pc = "get_haversine_distance"
    /\ a' = [i \in 1..Len(lats) |-> HavA(lats[i], lons[i], lat0, lon0)]
    /\ pc' = "sqrt"
    /\ UNCHANGED <<lats, lons, lat0, lon0, root, c, distance>>
    /\ UNCHANGED payVars
    /\ UNCHANGED bcVars

\* line 39: np.sqrt(a)
TakeSqrt ==
    /\ pc = "sqrt"
    /\ root' = [i \in 1..Len(a) |-> Sqrt(a[i])]
    /\ pc' = "arcsin"
    /\ UNCHANGED <<lats, lons, lat0, lon0, a, c, distance>>
    /\ UNCHANGED payVars
    /\ UNCHANGED bcVars

\* line 39: c = 2 * np.arcsin(...)
TakeArcsin ==
    /\ pc = "arcsin"
    /\ c' = [i \in 1..Len(root) |->
               LET h == Arcsin(root[i]) IN IF h.nan THEN NaN ELSE Fl(2 * h.val)]
    /\ pc' = "scale"
    /\ UNCHANGED <<lats, lons, lat0, lon0, a, root, distance>>
    /\ UNCHANGED payVars
    /\ UNCHANGED bcVars

\* lines 40-41: c * r, in thousandths of a km
ReturnDistance ==
    /\ pc = "scale"
    /\ distance' = [i \in 1..Len(c) |->
                      IF c[i].nan THEN NaN ELSE Fl(c[i].val * EARTH_RADIUS)]
    /\ pc' = "returned"
    /\ UNCHANGED <<lats, lons, lat0, lon0, a, root, c>>
    /\ UNCHANGED payVars
    /\ UNCHANGED bcVars

MaxPoints == 2

Lats == {-20, 0, 20, 90}
Lons == {-180, 0, 180}

InitHav ==
    /\ pc = "get_haversine_distance"
    /\ \E n \in 0..MaxPoints : lats \in [1..n -> Lats] /\ lons \in [1..n -> Lons]
    /\ lat0 \in Lats
    /\ lon0 \in Lons
    /\ a = <<>>
    /\ root = <<>>
    /\ c = <<>>
    /\ distance = <<>>
    /\ IdlePayouts
    /\ IdleBC

NextHav == ComputeA \/ TakeSqrt \/ TakeArcsin \/ ReturnDistance

SpecHav == InitHav /\ [][NextHav]_vars

-----------------------------------------------------------------------------
(* Malformed catalogues *)

Time200 == <<"2", "0", "0">>
TimeEmpty == <<>>
Time20x1 == <<"2", "0", "x", "1", "0", "6", "1", "5">>

GoodRow == [time |-> Time2001, mag |-> Num(60), distance |-> Num(50)]

MalformedRows ==
    {[GoodRow EXCEPT !.time = Time200],
     [GoodRow EXCEPT !.time = TimeEmpty],
     [GoodRow EXCEPT !.time = Time20x1],
     [GoodRow EXCEPT !.mag = NotANumber],
     [GoodRow EXCEPT !.distance = NotANumber],
     [GoodRow EXCEPT !.mag = NotANumber, !.distance = Num(100)]}

InitMalformed ==
    /\ pc = "compute_payouts"
    /\ earthquake_data \in SeqsUpTo(MalformedRows \cup {GoodRow}, MaxEvents)
    /\ payouts_str \in SeqsUpTo(Bands, MaxBands)
    /\ idx = 0
    /\ payout_years = EmptyDict
    /\ IdleBC
    /\ IdleHav

SpecMalformed == InitMalformed /\ [][Next]_vars

-----------------------------------------------------------------------------
(* Properties of compute_payouts *)

\* the year a well-formed time value names: its first four digits
YearDigits(t) ==
    1000 * DigitVal(t[1]) + 100 * DigitVal(t[2]) + 10 * DigitVal(t[3]) + DigitVal(t[4])

\* the payout the schedule owes one event: the largest Payout among the bands
\* the event is within, 0 when it is within none
QualifyingMax(ev, sched) ==
    SetMax({sched[j].Payout : j \in {k \in 1..Len(sched) :
                /\ ev.distance.val <= sched[k].Radius
                /\ ev.mag.val >= sched[k].Magnitude}})

RowsOfYear(y, n) == {i \in 1..n : YearDigits(earthquake_data[i].time) = y}

ExampleRow == [time |-> Time2001, mag |-> Num(60), distance |-> Num(50)]
ExampleSchedule == <<Band(100, 50, 500), Band(50, 65, 1000)>>

\* C1: the payout recorded for an event that is alone in its year is the
\* largest Payout over the bands with distance <= Radius and mag >= Magnitude,
\* 0 when no band qualifies; the 2001 example yields {2001: 500}.
C1_PerEventPayout ==
    /\ \A i \in 1..idx :
          LET y == YearDigits(earthquake_data[i].time)
          IN RowsOfYear(y, idx) = {i} =>
                /\ y \in DOMAIN payout_years
                /\ payout_years[y] = QualifyingMax(earthquake_data[i], payouts_str)
    /\ (pc = "returned" /\ earthquake_data = <<ExampleRow>> /\ payouts_str = ExampleSchedule)
          => payout_years = (2001 :> 500)

C1_Witness ==
    /\ pc = "returned"
    /\ earthquake_data = <<ExampleRow>>
    /\ payouts_str = ExampleSchedule
    /\ payout_years = (2001 :> 500)

\* C2: the value returned for a year is the maximum of the per-event payouts
\* of that year's events, never their sum.
C2_YearlyMax ==
    pc = "returned" =>
        \A y \in DOMAIN payout_years :
            payout_years[y] =
                SetMax({QualifyingMax(earthquake_data[i], payouts_str) :
                            i \in RowsOfYear(y, Len(earthquake_data))})

C2_Witness ==
    /\ pc = "returned"
    /\ Len(earthquake_data) = 2
    /\ YearDigits(earthquake_data[1].time) = YearDigits(earthquake_data[2].time)
    /\ QualifyingMax(earthquake_data[1], payouts_str) = 100
    /\ QualifyingMax(earthquake_data[2], payouts_str) = 300
    /\ payout_years = (YearDigits(earthquake_data[1].time) :> 300)

\* C3: the keys of the returned mapping are exactly the years of the
\* catalogue's events; a year whose events qualify for no band has value 0.
C3_KeySet ==
    pc = "returned" =>
        /\ DOMAIN payout_years =
              {YearDigits(earthquake_data[i].time) : i \in 1..Len(earthquake_data)}
        /\ \A y \in {YearDigits(earthquake_data[i].time) : i \in 1..Len(earthquake_data)} :
              (\A i \in RowsOfYear(y, Len(earthquake_data)) :
                    QualifyingMax(earthquake_data[i], payouts_str) = 0)
                => (y \in DOMAIN payout_years /\ payout_years[y] = 0)

C3_Witness ==
    /\ pc = "returned"
    /\ earthquake_data # <<>>
    /\ payouts_str # <<>>
    /\ \E y \in DOMAIN payout_years : payout_years[y] = 0
    /\ \E y \in DOMAIN payout_years : payout_years[y] > 0

AloneInYear(i) ==
    RowsOfYear(YearDigits(earthquake_data[i].time), Len(earthquake_data)) = {i}

\* C6: for one schedule, of two events alone in their years, the one with the
\* larger magnitude at the same distance, or the smaller distance at the same
\* magnitude, is recorded a payout at least as large.
C6_Monotone ==
    pc = "returned" =>
        \A i, j \in 1..Len(earthquake_data) :
            LET ei == earthquake_data[i]
                ej == earthquake_data[j]
            IN (/\ AloneInYear(i)
                /\ AloneInYear(j)
                /\ \/ ei.distance.val = ej.distance.val /\ ei.mag.val <= ej.mag.val
                   \/ ei.mag.val = ej.mag.val /\ ei.distance.val >= ej.distance.val)
               => payout_years[YearDigits(ei.time)] <= payout_years[YearDigits(ej.time)]

C6_Witness ==
    /\ pc = "returned"
    /\ Len(earthquake_data) = 2
    /\ AloneInYear(1)
    /\ AloneInYear(2)
    /\ earthquake_data[1].distance = earthquake_data[2].distance
    /\ earthquake_data[1].mag.val < earthquake_data[2].mag.val
    /\ payout_years[YearDigits(earthquake_data[1].time)]
          < payout_years[YearDigits(earthquake_data[2].time)]

\* what one step of the scan may do to the mapping, the step having consumed
\* row idx + 1
ScanStepOK ==
    LET ev == earthquake_data[idx + 1]
        y == YearDigits(ev.time)
        p == QualifyingMax(ev, payouts_str)
    IN /\ DOMAIN payout_years \subseteq DOMAIN payout_years'
       /\ \A k \in DOMAIN payout_years : payout_years[k] <= payout_years'[k]
       /\ \A k \in DOMAIN payout_years :
             payout_years'[k] # payout_years[k] => (k = y /\ p > payout_years[k])
       /\ (y \in DOMAIN payout_years /\ p <= payout_years[y])
             => payout_years' = payout_years
       /\ y \in DOMAIN payout_years'
       /\ payout_years'[y] =
             SetMax({QualifyingMax(earthquake_data[i], payouts_str) :
                        i \in RowsOfYear(y, idx + 1)})

\* C9: during the scan the mapping only grows and only rises; an entry
\* changes only for a strictly greater payout, and after each event the entry
\* of its year is the maximum over that year's events so far.
C9_ScanMonotone ==
    [][IF idx' = idx + 1 THEN ScanStepOK ELSE payout_years' = payout_years]_vars

C9_Witness ==
    /\ pc = "compute_payouts"
    /\ idx = 2
    /\ YearDigits(earthquake_data[1].time) = YearDigits(earthquake_data[2].time)
    /\ QualifyingMax(earthquake_data[1], payouts_str) = 300
    /\ QualifyingMax(earthquake_data[2], payouts_str) = 100
    /\ payout_years = (YearDigits(earthquake_data[1].time) :> 300)

WellFormedRow(ev) ==
    /\ Len(ev.time) >= 4
    /\ \A k \in 1..4 : IsDigit(ev.time[k])
    /\ ev.mag.num
    /\ ev.distance.num

\* C7: a catalogue with a row whose time cannot yield a 4-character year, or
\* whose magnitude or distance is not a number, never makes compute_payouts
\* return a mapping: the call ends in an error.
C7_FailFast ==
    pc = "returned" => \A i \in 1..Len(earthquake_data) : WellFormedRow(earthquake_data[i])

-----------------------------------------------------------------------------
(* Properties of compute_burning_cost *)

KeysInInterval == {y \in DOMAIN payouts : start_year <= y /\ y <= end_year}

RECURSIVE SumOver(_, _)
SumOver(d, S) ==
    IF S = {} THEN 0
    ELSE LET y == CHOOSE k \in S : TRUE
         IN d[y] + SumOver(d, S \ {y})

\* C4: with a key in [start_year, end_year] the result is the sum of the
\* payouts of the keys in the interval over end_year - start_year + 1;
\* {2000: 100, 2001: 0} over [2000, 2004] gives 20.
C4_BurningCost ==
    /\ (pc = "returned" /\ KeysInInterval # {}) =>
          /\ burning_cost.kind = "number"
          /\ burning_cost.num = SumOver(payouts, KeysInInterval)
          /\ burning_cost.den = end_year - start_year + 1
    /\ (/\ pc = "returned"
        /\ payouts = (2000 :> 100 @@ 2001 :> 0)
        /\ start_year = 2000
        /\ end_year = 2004)
          => (burning_cost.kind = "number" /\ burning_cost.num = 20 * burning_cost.den)

C4_Witness ==
    /\ pc = "returned"
    /\ payouts = (2000 :> 100 @@ 2001 :> 0)
    /\ start_year = 2000
    /\ end_year = 2004
    /\ burning_cost = [kind |-> "number", num |-> 100, den |-> 5]

\* C5: the result is None exactly when no key lies in the interval; with a
\* key in the interval it is a number, and that number is 0 only when the
\* selected payouts sum to 0.
C5_NoData ==
    pc = "returned" =>
        /\ (burning_cost.kind = "None") <=> (KeysInInterval = {})
        /\ KeysInInterval # {} =>
              /\ burning_cost.kind = "number"
              /\ burning_cost.den # 0
              /\ (burning_cost.num = 0) <=> (SumOver(payouts, KeysInInterval) = 0)

C5_Witness ==
    /\ pc = "returned"
    /\ DOMAIN payouts # {}
    /\ start_year <= end_year
    /\ KeysInInterval = {}
    /\ burning_cost.kind = "None"

\* C10: the division is reached only with end_year - start_year + 1 >= 1;
\* in every other case, an empty or reversed interval included, the result
\* is None.
C10_NoDivisionByZero ==
    pc = "returned" =>
        /\ burning_cost.kind \in {"None", "number"}
        /\ burning_cost.kind = "number" =>
              (burning_cost.den >= 1 /\ end_year - start_year + 1 >= 1)
        /\ end_year - start_year + 1 < 1 => burning_cost.kind = "None"

C10_Witness ==
    /\ pc = "returned"
    /\ end_year = start_year - 1
    /\ start_year \in DOMAIN payouts
    /\ end_year \in DOMAIN payouts
    /\ burning_cost.kind = "None"

-----------------------------------------------------------------------------
(* Properties of get_haversine_distance *)

\* pi * 6378 km, in thousandths of a km
MaxDistance == 2 * ArcsinTable[ONE + 1] * EARTH_RADIUS

\* C8: the value a reaches the square root within [0, 1], the argument of
\* the inverse sine is within its domain, and every returned distance lies
\* in [0, pi * 6378].
C8_Clamped ==
    /\ pc = "sqrt" =>
          \A i \in 1..Len(a) : ~a[i].nan /\ 0 <= a[i].val /\ a[i].val <= ONE
    /\ pc = "arcsin" =>
          \A i \in 1..Len(root) : ~root[i].nan /\ 0 <= root[i].val /\ root[i].val <= ONE
    /\ pc = "returned" =>
          \A i \in 1..Len(distance) :
              ~distance[i].nan /\ 0 <= distance[i].val /\ distance[i].val <= MaxDistance

====
